---- MODULE Spec2Model ----
(***************************************************************************)
(* Model of the Traceix SDK client (src/python/traceix_sdk.py).            *)
(*                                                                         *)
(* Strings whose structure matters (URLs, user-agent) are sequences of     *)
(* tokens; every "/" of a URL is a token of its own, so that the number of *)
(* separators in a built URL is visible.  Python's None is the marker      *)
(* None below.  The transport (requests.post) and the filesystem are the   *)
(* environment: their answers are drawn nondeterministically.              *)
(***************************************************************************)
EXTENDS Integers, Sequences, FiniteSets, TLC

\* ------------------------------------------------------------------ bounds
MaxHandles == 3

\* ------------------------------------------------------------ input domains
None == "<None>"

ExplicitKeys == {None, "", "key-A"}
EnvKeyValues == {None, "", "key-E"}
TelemetryValues == {None, "1", "0"}
Filenames == {"sample.bin"}
Uuids == {None, "", "uuid-1"}
Hashes == {"abc123"}
Cids == {"Qm1"}
SearchTypes == {None, "capa", "exif", "CAPA", ""}
Platform == "Linux-6.1-x86_64"
PythonVersion == "3.11.4"

\* What requests.post can do: raise, or hand back a response.
TransportExceptions == {"ConnectionError"}
Bodies == {"{\"ok\":1}", "null", "<html>"}
NetOutcomes ==
    {[kind |-> "exc", body |-> e] : e \in TransportExceptions}
    \cup {[kind |-> "resp", body |-> b] : b \in Bodies}

\* Response.json(): which bodies decode, and to what.
JsonDecodable(body) == body \in {"{\"ok\":1}", "null"}
JsonDecode(body) == IF body = "null" THEN None ELSE "dict:ok=1"

\* kwargs of hash_search: a mapping with or without the key search_type.
NoKwargs == [k \in {} |-> None]
KwargsSet == {NoKwargs} \cup {[k \in {"search_type"} |-> v] : v \in SearchTypes}
KwargsGet(kwargs, key, default) ==
    IF key \in DOMAIN kwargs THEN kwargs[key] ELSE default

\* -------------------------------------------------------- program constants
sdk_version == "0.0.0.1"
BaseUrl == <<"https:", "/", "/", "ai.perkinsfund.org">>
UploadPath == <<"/", "api", "/", "traceix", "/", "v1", "/", "upload">>
StatusPath == <<"/", "api", "/", "v1", "/", "traceix", "/", "status">>
CapaSearchPath == <<"/", "api", "/", "traceix", "/", "v1", "/", "capa", "/", "search">>
ExifSearchPath == <<"/", "api", "/", "traceix", "/", "v1", "/", "exif", "/", "search">>
CapaPath == <<"/", "api", "/", "traceix", "/", "v1", "/", "capa">>
ExifPath == <<"/", "api", "/", "traceix", "/", "v1", "/", "exif">>
IpfsListPath == <<"/", "api", "/", "traceix", "/", "v1", "/", "ipfs", "/", "listall">>
IpfsSearchPath == <<"/", "api", "/", "traceix", "/", "v1", "/", "ipfs", "/", "search">>
IpfsFindPath == <<"/", "api", "/", "traceix", "/", "v1", "/", "ipfs", "/", "find">>

\* ------------------------------------------------------------------- state
VARIABLES
    env_api_key,    \* os.environ["TRACEIX_API_KEY"] (None = unset)
    env_telemetry,  \* os.environ["TRACEIX_DISABLE_TELEMETRY"] (None = unset)
    fs,             \* files that exist and are readable
    self,           \* the latest TraceixSdk instance: [api_key, base_url, ok]
    ctor,           \* inputs and outcome of the latest construction
    pc,             \* position of the caller: idle, or inside full_upload
    call,           \* the latest public invocation: [op, arg, kwargs]
    locals,         \* full_upload's locals: [ai_data, capa_status]
    requests,       \* requests.post calls of the latest invocation, in order
    log,            \* call/open/post/return events of the latest invocation
    result,         \* outcome of the latest invocation: [kind, val]
    handles,        \* every file handle opened so far: "open" or "closed"
    built           \* file payloads built so far

vars == <<env_api_key, env_telemetry, fs, self, ctor, pc, call, locals,
          requests, log, result, handles, built>>

Return(v) == [kind |-> "return", val |-> v]
Raise(e) == [kind |-> "raise", val |-> e]
Event(ev, op, val) == [ev |-> ev, op |-> op, val |-> val]
ResultEvent(op, res) == Event(res.kind, op, res.val)

\* --------------------------------------------------------------- __init__
\* Returns the instance as __init__ leaves it; ok = FALSE when NoApiKey is
\* raised (base_url is then never assigned).
\* Variant: only an absent credential is rejected.
TraceixSdkInit_NoneOnly(api_key, env) ==
    LET k == IF api_key = None THEN env ELSE api_key
    IN  IF k = None
        THEN [api_key |-> k, base_url |-> <<>>, ok |-> FALSE]
        ELSE [api_key |-> k, base_url |-> BaseUrl, ok |-> TRUE]

TraceixSdkInit(api_key, env) ==
    LET k == IF api_key = None THEN env ELSE api_key
    IN  IF k = None \/ k = ""
        THEN [api_key |-> k, base_url |-> <<>>, ok |-> FALSE]
        ELSE [api_key |-> k, base_url |-> BaseUrl, ok |-> TRUE]

\* ---------------------------------------------------------------- helpers
\* Variant: any non-empty value of the flag disables telemetry.
build_user_agent_Truthy(tel) ==
    LET telemetry_disabled == (tel # None /\ tel # "")
        user_agent == <<"Traceix/", sdk_version>>
    IN  IF ~telemetry_disabled
        THEN user_agent \o <<" (", Platform, " v", PythonVersion, ")">>
        ELSE user_agent

build_user_agent(tel) ==
    LET telemetry_disabled == (tel = "1")
        user_agent == <<"Traceix/", sdk_version>>
    IN  IF ~telemetry_disabled
        THEN user_agent \o <<" (", Platform, " v", PythonVersion, ")">>
        ELSE user_agent

build_headers(me, tel) ==
    [h \in {"x-api-key", "user-agent"} |->
        IF h = "x-api-key" THEN <<me.api_key>> ELSE build_user_agent(tel)]

build_url(me, path) == me.base_url \o <<"/">> \o path

\* Variant: the handle is opened in a scope that closes it on return.
build_file_data_Scoped(filename, files, hs) ==
    IF filename \in files
    THEN [ok |-> TRUE, handles |-> Append(hs, "closed"),
          files |-> [kind |-> "files", key |-> "file", val |-> filename]]
    ELSE [ok |-> FALSE, handles |-> hs,
          files |-> [kind |-> "files", key |-> "file", val |-> filename]]

\* open(filename, "rb") and the files mapping: ok = FALSE is the OSError.
build_file_data(filename, files, hs) ==
    IF filename \in files
    THEN [ok |-> TRUE, handles |-> Append(hs, "open"),
          files |-> [kind |-> "files", key |-> "file", val |-> filename]]
    ELSE [ok |-> FALSE, handles |-> hs,
          files |-> [kind |-> "files", key |-> "file", val |-> filename]]

JsonPayload(key, val) == [kind |-> "json", key |-> key, val |-> val]
NoPayload == [kind |-> "none", key |-> "", val |-> ""]

\* Variant: the request is issued once more after a transport exception.
send_Retry(op, url, headers, payload, tel, net) ==
    LET req == [op |-> op, url |-> url, headers |-> headers,
                payload |-> payload, tel |-> tel, net |-> net]
        res == IF net.kind = "exc"
               THEN Return(None)
               ELSE IF JsonDecodable(net.body)
                    THEN Return(JsonDecode(net.body))
                    ELSE Raise("JSONDecodeError")
    IN  [reqs |-> IF net.kind = "exc" THEN <<req, req>> ELSE <<req>>, res |-> res]

\* The tail every operation shares: try: requests.post(...) except: req = None;
\* then req.json() outside the try.
send(op, url, headers, payload, tel, net) ==
    LET req == [op |-> op, url |-> url, headers |-> headers,
                payload |-> payload, tel |-> tel, net |-> net]
        res == IF net.kind = "exc"
               THEN Return(None)
               ELSE IF JsonDecodable(net.body)
                    THEN Return(JsonDecode(net.body))
                    ELSE Raise("JSONDecodeError")
    IN  [reqs |-> <<req>>, res |-> res]

\* Outcome of one operation: the requests it issued, its events, its result
\* and the handle table it leaves.
Outcome(op, reqs, events, res, hs) ==
    [reqs |-> reqs,
     log |-> <<Event("call", op, "")>> \o events \o <<ResultEvent(op, res)>>,
     res |-> res, handles |-> hs]

\* Number of file payloads an operation's events report as built.
PayloadsBuilt(events) ==
    Cardinality({i \in 1..Len(events) : events[i].ev = "open" /\ events[i].val = "ok"})

PostEvents(op, reqs) == [i \in 1..Len(reqs) |-> Event("post", op, "")]

\* Variant: the payload is built inside the try block, so a filesystem error
\* is suppressed like a transport error.
file_upload_OpenInTry(op, me, path, filename, tel, files, hs, net) ==
    LET url == build_url(me, path)
        headers == build_headers(me, tel)
        post_data == build_file_data(filename, files, hs)
        s == send(op, url, headers, post_data.files, tel, net)
    IN  IF ~post_data.ok
        THEN Outcome(op, <<>>, <<Event("open", op, "OSError")>>,
                     Return(None), post_data.handles)
        ELSE Outcome(op, s.reqs,
                     <<Event("open", op, "ok")>> \o PostEvents(op, s.reqs),
                     s.res, post_data.handles)

\* ai_prediction, capa_extraction and exif_extraction have the same body up to
\* the path.
file_upload(op, me, path, filename, tel, files, hs, net) ==
    LET url == build_url(me, path)
        headers == build_headers(me, tel)
        post_data == build_file_data(filename, files, hs)
        s == send(op, url, headers, post_data.files, tel, net)
    IN  IF ~post_data.ok
        THEN Outcome(op, <<>>, <<Event("open", op, "OSError")>>,
                     Raise("OSError"), post_data.handles)
        ELSE Outcome(op, s.reqs,
                     <<Event("open", op, "ok")>> \o PostEvents(op, s.reqs),
                     s.res, post_data.handles)

ai_prediction(me, filename, tel, files, hs, net) ==
    file_upload("ai_prediction", me, UploadPath, filename, tel, files, hs, net)

capa_extraction(me, filename, tel, files, hs, net) ==
    file_upload("capa_extraction", me, CapaPath, filename, tel, files, hs, net)

exif_extraction(me, filename, tel, files, hs, net) ==
    file_upload("exif_extraction", me, ExifPath, filename, tel, files, hs, net)

json_post(op, me, path, headers, payload, tel, hs, net) ==
    LET s == send(op, build_url(me, path), headers, payload, tel, net)
    IN  Outcome(op, s.reqs, PostEvents(op, s.reqs), s.res, hs)

check_status(me, uuid, tel, hs, net) ==
    IF uuid = None
    THEN Outcome("check_status", <<>>, <<>>, Raise("NoUuidProvided"), hs)
    ELSE json_post("check_status", me, StatusPath, build_headers(me, tel),
                   JsonPayload("uuid", uuid), tel, hs, net)

\* Variant: an unrecognised search type falls back to the default.
hash_search_path_Fallback(search_type) ==
    IF search_type = "exif" THEN ExifSearchPath
    ELSE CapaSearchPath

\* The url hash_search selects; <<>> stands for url = None.
hash_search_path(search_type) ==
    IF search_type = "capa" THEN CapaSearchPath
    ELSE IF search_type = "exif" THEN ExifSearchPath
    ELSE <<>>

hash_search(me, file_hash, kwargs, tel, hs, net) ==
    LET search_type == KwargsGet(kwargs, "search_type", "capa")
        path == hash_search_path(search_type)
        headers == build_headers(me, tel)
        headers2 == [h \in DOMAIN headers \cup {"content-type"} |->
                        IF h = "content-type" THEN <<"application/json">>
                        ELSE headers[h]]
    IN  IF path = <<>>
        THEN Outcome("hash_search", <<>>, <<>>, Raise("InvalidSearchType"), hs)
        ELSE json_post("hash_search", me, path, headers2,
                       JsonPayload("sha256", file_hash), tel, hs, net)

list_all_ipfs_datasets(me, tel, hs, net) ==
    json_post("list_all_ipfs_datasets", me, IpfsListPath,
              build_headers(me, tel), NoPayload, tel, hs, net)

get_public_ipfs_dataset(me, cid, tel, hs, net) ==
    json_post("get_public_ipfs_dataset", me, IpfsSearchPath,
              build_headers(me, tel), JsonPayload("cid", cid), tel, hs, net)

search_ipfs_dataset_by_hash(me, file_hash, tel, hs, net) ==
    json_post("search_ipfs_dataset_by_hash", me, IpfsFindPath,
              build_headers(me, tel), JsonPayload("sha_hash", file_hash), tel, hs, net)

\* Variant: the last two components are returned in the wrong order.
full_upload_return_Swapped(ai_data, capa_status, exif_data) ==
    <<ai_data, exif_data, capa_status>>

\* return ai_data, capa_status, exif_data
full_upload_return(ai_data, capa_status, exif_data) ==
    <<ai_data, capa_status, exif_data>>

\* -------------------------------------------------------------------- Init
NoCall == [op |-> "none", arg |-> "", kwargs |-> NoKwargs]
NoLocals == [ai_data |-> "", capa_status |-> ""]

Init ==
    /\ env_api_key \in EnvKeyValues
    /\ env_telemetry \in TelemetryValues
    /\ fs \in SUBSET Filenames
    /\ self = [api_key |-> None, base_url |-> <<>>, ok |-> FALSE]
    /\ ctor = [done |-> FALSE, arg |-> None, env |-> None]
    /\ pc = "idle"
    /\ call = NoCall
    /\ locals = NoLocals
    /\ requests = <<>>
    /\ log = <<>>
    /\ result = [kind |-> "init", val |-> ""]
    /\ handles = <<>>
    /\ built = 0

\* ----------------------------------------------------------------- actions
\* The environment between calls.
SetEnvApiKey ==
    /\ pc = "idle"
    /\ \E v \in EnvKeyValues : v # env_api_key /\ env_api_key' = v
    /\ UNCHANGED <<env_telemetry, fs, self, ctor, pc, call, locals, requests,
                   log, result, handles, built>>

SetEnvTelemetry ==
    /\ pc = "idle"
    /\ \E v \in TelemetryValues : v # env_telemetry /\ env_telemetry' = v
    /\ UNCHANGED <<env_api_key, fs, self, ctor, pc, call, locals, requests,
                   log, result, handles, built>>

\* Files appear and disappear at any time, also in the middle of full_upload.
ChangeFs ==
    /\ \E f \in Filenames : fs' = IF f \in fs THEN fs \ {f} ELSE fs \cup {f}
    /\ UNCHANGED <<env_api_key, env_telemetry, self, ctor, pc, call, locals,
                   requests, log, result, handles, built>>

Construct ==
    /\ pc = "idle"
    /\ \E k \in ExplicitKeys :
        /\ self' = TraceixSdkInit(k, env_api_key)
        /\ ctor' = [done |-> TRUE, arg |-> k, env |-> env_api_key]
    /\ call' = NoCall
    /\ requests' = <<>>
    /\ log' = <<>>
    /\ result' = [kind |-> "init", val |-> ""]
    /\ UNCHANGED <<env_api_key, env_telemetry, fs, pc, locals, handles, built>>

\* A finished single-operation invocation.
Finish(c, o) ==
    /\ call' = c
    /\ requests' = o.reqs
    /\ log' = o.log
    /\ result' = o.res
    /\ handles' = o.handles
    /\ built' = built + PayloadsBuilt(o.log)
    /\ pc' = "idle"
    /\ locals' = NoLocals
    /\ UNCHANGED <<env_api_key, env_telemetry, fs, self, ctor>>

Ready == pc = "idle" /\ self.ok

CallAiPrediction ==
    /\ Ready /\ Len(handles) < MaxHandles
    /\ \E f \in Filenames, net \in NetOutcomes :
        Finish([op |-> "ai_prediction", arg |-> f, kwargs |-> NoKwargs],
               ai_prediction(self, f, env_telemetry, fs, handles, net))

CallCapaExtraction ==
    /\ Ready /\ Len(handles) < MaxHandles
    /\ \E f \in Filenames, net \in NetOutcomes :
        Finish([op |-> "capa_extraction", arg |-> f, kwargs |-> NoKwargs],
               capa_extraction(self, f, env_telemetry, fs, handles, net))

CallExifExtraction ==
    /\ Ready /\ Len(handles) < MaxHandles
    /\ \E f \in Filenames, net \in NetOutcomes :
        Finish([op |-> "exif_extraction", arg |-> f, kwargs |-> NoKwargs],
               exif_extraction(self, f, env_telemetry, fs, handles, net))

CallCheckStatus ==
    /\ Ready
    /\ \E u \in Uuids, net \in NetOutcomes :
        Finish([op |-> "check_status", arg |-> u, kwargs |-> NoKwargs],
               check_status(self, u, env_telemetry, handles, net))

CallHashSearch ==
    /\ Ready
    /\ \E h \in Hashes, kw \in KwargsSet, net \in NetOutcomes :
        Finish([op |-> "hash_search", arg |-> h, kwargs |-> kw],
               hash_search(self, h, kw, env_telemetry, handles, net))

CallListAllIpfsDatasets ==
    /\ Ready
    /\ \E net \in NetOutcomes :
        Finish([op |-> "list_all_ipfs_datasets", arg |-> "", kwargs |-> NoKwargs],
               list_all_ipfs_datasets(self, env_telemetry, handles, net))

CallGetPublicIpfsDataset ==
    /\ Ready
    /\ \E c \in Cids, net \in NetOutcomes :
        Finish([op |-> "get_public_ipfs_dataset", arg |-> c, kwargs |-> NoKwargs],
               get_public_ipfs_dataset(self, c, env_telemetry, handles, net))

CallSearchIpfsDatasetByHash ==
    /\ Ready
    /\ \E h \in Hashes, net \in NetOutcomes :
        Finish([op |-> "search_ipfs_dataset_by_hash", arg |-> h, kwargs |-> NoKwargs],
               search_ipfs_dataset_by_hash(self, h, env_telemetry, handles, net))

\* full_upload: three component calls, one step each.  A component that
\* raises ends the invocation with that exception.
FullUploadStep(o, nextpc, loc) ==
    /\ requests' = requests \o o.reqs
    /\ handles' = o.handles
    /\ built' = built + PayloadsBuilt(o.log)
    /\ IF o.res.kind = "raise"
       THEN /\ pc' = "idle"
            /\ locals' = NoLocals
            /\ result' = o.res
            /\ log' = log \o o.log \o <<ResultEvent("full_upload", o.res)>>
       ELSE /\ pc' = nextpc
            /\ locals' = loc
            /\ IF nextpc = "idle"
               THEN LET r == Return(full_upload_return(locals.ai_data,
                                        locals.capa_status, o.res.val))
                    IN  /\ result' = r
                        /\ log' = log \o o.log \o <<Event("return", "full_upload", "")>>
               ELSE /\ result' = result
                    /\ log' = log \o o.log
    /\ UNCHANGED <<env_api_key, env_telemetry, fs, self, ctor, call>>

FullUploadStart ==
    /\ Ready /\ Len(handles) + 3 <= MaxHandles
    /\ \E f \in Filenames :
        /\ call' = [op |-> "full_upload", arg |-> f, kwargs |-> NoKwargs]
        /\ pc' = "fu_ai"
    /\ requests' = <<>>
    /\ log' = <<Event("call", "full_upload", "")>>
    /\ result' = [kind |-> "init", val |-> ""]
    /\ locals' = NoLocals
    /\ UNCHANGED <<env_api_key, env_telemetry, fs, self, ctor, handles, built>>

FullUploadAi ==
    /\ pc = "fu_ai"
    /\ \E net \in NetOutcomes :
        LET o == ai_prediction(self, call.arg, env_telemetry, fs, handles, net)
        IN  FullUploadStep(o, "fu_capa", [locals EXCEPT !.ai_data = o.res.val])

FullUploadCapa ==
    /\ pc = "fu_capa"
    /\ \E net \in NetOutcomes :
        LET o == capa_extraction(self, call.arg, env_telemetry, fs, handles, net)
        IN  FullUploadStep(o, "fu_exif", [locals EXCEPT !.capa_status = o.res.val])

FullUploadExif ==
    /\ pc = "fu_exif"
    /\ \E net \in NetOutcomes :
        LET o == exif_extraction(self, call.arg, env_telemetry, fs, handles, net)
        IN  FullUploadStep(o, "idle", NoLocals)

Next ==
    \/ SetEnvApiKey
    \/ SetEnvTelemetry
    \/ ChangeFs
    \/ Construct
    \/ CallAiPrediction
    \/ CallCapaExtraction
    \/ CallExifExtraction
    \/ CallCheckStatus
    \/ CallHashSearch
    \/ CallListAllIpfsDatasets
    \/ CallGetPublicIpfsDataset
    \/ CallSearchIpfsDatasetByHash
    \/ FullUploadStart
    \/ FullUploadAi
    \/ FullUploadCapa
    \/ FullUploadExif

Spec == Init /\ [][Next]_vars

TypeOK ==
    /\ pc \in {"idle", "fu_ai", "fu_capa", "fu_exif"}
    /\ Len(handles) <= MaxHandles
    /\ Len(requests) <= 3
\* ------------------------------------------------------------- properties
SingleOps ==
    {"ai_prediction", "check_status", "hash_search", "capa_extraction",
     "exif_extraction", "list_all_ipfs_datasets", "get_public_ipfs_dataset",
     "search_ipfs_dataset_by_hash"}
FileOps == {"ai_prediction", "capa_extraction", "exif_extraction"}
FullUploadOps == <<"ai_prediction", "capa_extraction", "exif_extraction">>
FullUploadPaths == <<UploadPath, CapaPath, ExifPath>>

IsPrefix(p, t) == Len(p) <= Len(t) /\ SubSeq(t, 1, Len(p)) = p
EndsWith(t, p) == Len(p) <= Len(t) /\ SubSeq(t, Len(t) - Len(p) + 1, Len(t)) = p

\* Number of consecutive "/" tokens of url from position i on.
RECURSIVE SlashRun(_, _)
SlashRun(url, i) ==
    IF i > Len(url) \/ url[i] # "/" THEN 0 ELSE 1 + SlashRun(url, i + 1)

SearchTypeGiven(v) == call.kwargs = [k \in {"search_type"} |-> v]
SearchTypeOmitted == call.kwargs = NoKwargs

\* C1: for each of the eight single operations whose validation passed (its
\* request was issued), a transport exception or a body that is not JSON
\* makes the operation return None.
C1_FailureYieldsNone ==
    (pc = "idle" /\ call.op \in SingleOps /\ Len(requests) = 1
        /\ (requests[1].net.kind = "exc" \/ ~JsonDecodable(requests[1].net.body)))
    => result = Return(None)

\* C2: check_status raises NoUuidProvided for uuid None and for uuid "", with
\* no request issued.
C2_MissingUuidRaises ==
    (call.op = "check_status" /\ call.arg \in {None, ""})
    => (result = Raise("NoUuidProvided") /\ requests = <<>>)

\* C3: hash_search posts to the capa-search path for search_type "capa" or
\* omitted, to the exif-search path for "exif", and for any other value raises
\* InvalidSearchType with no request issued.
C3_HashSearchRouting ==
    call.op = "hash_search" =>
        /\ (SearchTypeOmitted \/ SearchTypeGiven("capa")) =>
                /\ Len(requests) = 1
                /\ EndsWith(requests[1].url, CapaSearchPath)
        /\ SearchTypeGiven("exif") =>
                /\ Len(requests) = 1
                /\ EndsWith(requests[1].url, ExifSearchPath)
        /\ ~(SearchTypeOmitted \/ SearchTypeGiven("capa") \/ SearchTypeGiven("exif")) =>
                /\ result = Raise("InvalidSearchType")
                /\ requests = <<>>

C3_Witness ==
    /\ call.op = "hash_search"
    /\ SearchTypeGiven("CAPA")
    /\ result = Raise("InvalidSearchType")

\* C4: construction fails (NoApiKey) when the explicit credential is None or
\* empty and the environment supplies no non-empty value; a constructed client
\* holds a non-empty credential; a non-empty explicit credential is stored
\* unchanged.
C4_CredentialNonEmpty ==
    ctor.done =>
        /\ (ctor.arg \in {None, ""} /\ ctor.env \in {None, ""}) => ~self.ok
        /\ self.ok => (self.api_key # None /\ self.api_key # "")
        /\ ctor.arg \notin {None, ""} => (self.ok /\ self.api_key = ctor.arg)

C4_Witness ==
    /\ ctor.done
    /\ ctor.arg = None
    /\ ctor.env = ""
    /\ ~self.ok

\* C5: full_upload runs ai_prediction, capa_extraction, exif_extraction in
\* that order, each called only after the previous one returned, posting to
\* the upload, capa and exif paths in that order, and returns the three
\* results as a tuple in the same order.
InnerLog == SelectSeq(log, LAMBDA e : e.op # "full_upload")
InnerCalls == SelectSeq(InnerLog, LAMBDA e : e.ev \in {"call", "return", "raise"})

C5_FullUploadSequential ==
    call.op = "full_upload" =>
        /\ Len(InnerCalls) <= 6
        /\ \A i \in 1..Len(InnerCalls) :
            /\ InnerCalls[i].op = FullUploadOps[(i + 1) \div 2]
            /\ (i % 2 = 1) <=> (InnerCalls[i].ev = "call")
            /\ (i % 2 = 1 /\ i > 1) => InnerCalls[i - 1].ev = "return"
        /\ \A i \in 1..Len(InnerLog) :
            /\ InnerLog[i].ev = "call" => (i = 1 \/ InnerLog[i - 1].ev = "return")
            /\ InnerLog[i].ev \in {"open", "post"} => InnerLog[i - 1].op = InnerLog[i].op
        /\ Len(requests) <= 3
        /\ \A i \in 1..Len(requests) :
            /\ requests[i].op = FullUploadOps[i]
            /\ EndsWith(requests[i].url, FullUploadPaths[i])
        /\ (pc = "idle" /\ result.kind = "return") =>
            /\ Len(InnerCalls) = 6
            /\ Len(requests) = 3
            /\ result.val = <<InnerCalls[2].val, InnerCalls[4].val, InnerCalls[6].val>>

C5_Witness ==
    /\ call.op = "full_upload"
    /\ pc = "idle"
    /\ result.kind = "return"
    /\ result.val[1] = None
    /\ result.val[2] = "dict:ok=1"
    /\ result.val[3] = None
    /\ requests[2].net.kind = "resp"
    /\ requests[3].net.kind = "exc"

\* C6: when a file-upload operation cannot open its file, the filesystem
\* error leaves the operation as an exception (not as None), no request of
\* that operation is issued, and in full_upload no further component runs.
C6_FileErrorPropagates ==
    \A i \in 1..Len(log) :
        (log[i].ev = "open" /\ log[i].val = "OSError") =>
            /\ log[i].op \in FileOps
            /\ i < Len(log)
            /\ log[i + 1] = Event("raise", log[i].op, "OSError")
            /\ \A j \in 1..Len(requests) : requests[j].op # log[i].op
            /\ pc = "idle"
            /\ result = Raise("OSError")
            /\ call.op = "full_upload" =>
                /\ Len(log) = i + 2
                /\ log[i + 2] = Event("raise", "full_upload", "OSError")
            /\ call.op # "full_upload" =>
                /\ Len(log) = i + 1
                /\ requests = <<>>

C6_Witness ==
    /\ call.op = "full_upload"
    /\ pc = "idle"
    /\ Len(requests) = 1
    /\ result = Raise("OSError")
    /\ \E i \in 1..Len(log) : log[i] = Event("open", "capa_extraction", "OSError")

\* C7: in every requested URL exactly one "/" stands between the base address
\* and the first path segment.
C7_SingleSeparator ==
    \A i \in 1..Len(requests) :
        /\ IsPrefix(BaseUrl, requests[i].url)
        /\ SlashRun(requests[i].url, Len(BaseUrl) + 1) = 1

\* C8: the user-agent of every request begins with Traceix/<sdk_version>, and
\* carries the platform and Python version exactly when
\* TRACEIX_DISABLE_TELEMETRY was not "1" at the time of the request.
HasDetails(ua) ==
    /\ \E i \in 3..Len(ua) : ua[i] = Platform
    /\ \E i \in 3..Len(ua) : ua[i] = PythonVersion

C8_UserAgent ==
    \A i \in 1..Len(requests) :
        LET ua == requests[i].headers["user-agent"]
        IN  /\ IsPrefix(<<"Traceix/", "0.0.0.1">>, ua)
            /\ HasDetails(ua) <=> (requests[i].tel # "1")
            /\ ~HasDetails(ua) => Len(ua) = 2

C8_Witness ==
    /\ Len(requests) = 1
    /\ requests[1].tel = "0"
    /\ HasDetails(requests[1].headers["user-agent"])

\* C9: a single operation issues exactly one request when its validation and
\* payload construction succeed and none when they fail, also when the
\* transport raised; full_upload issues at most three.
ValidationOk ==
    CASE call.op = "check_status" -> call.arg # None
      [] call.op = "hash_search" ->
            SearchTypeOmitted \/ SearchTypeGiven("capa") \/ SearchTypeGiven("exif")
      [] call.op \in FileOps ->
            \E i \in 1..Len(log) : log[i] = Event("open", call.op, "ok")
      [] OTHER -> TRUE

C9_OneRequestPerCall ==
    /\ (call.op \in SingleOps /\ pc = "idle") =>
            Len(requests) = (IF ValidationOk THEN 1 ELSE 0)
    /\ call.op = "full_upload" =>
            /\ Len(requests) <= 3
            /\ Len(requests) = PayloadsBuilt(log)

C9_Witness ==
    /\ call.op = "check_status"
    /\ pc = "idle"
    /\ Len(requests) = 1
    /\ requests[1].net.kind = "exc"
    /\ result = Return(None)

\* C10: the client never closes a handle it opened: the handles opened and
\* not closed are as many as the file payloads built, and a full_upload that
\* completes leaves three of them open.
OpenHandles == {i \in 1..Len(handles) : handles[i] = "open"}

C10_HandlesNeverClosed ==
    /\ Cardinality(OpenHandles) = built
    /\ (call.op = "full_upload" /\ pc = "idle" /\ result.kind = "return") =>
            /\ PayloadsBuilt(log) = 3
            /\ Len(handles) >= 3
            /\ \A i \in (Len(handles) - 2)..Len(handles) : handles[i] = "open"

C10_Witness ==
    /\ call.op = "full_upload"
    /\ pc = "idle"
    /\ result.kind = "return"
    /\ Cardinality(OpenHandles) = 3
====
